---- MODULE Spec2Model ----
(***************************************************************************)
(* Model of linter/file.go: the suppression-directive scan                 *)
(* (File.disabledIntervals), the interval filter (File.filterFailures)     *)
(* and the lint dispatch loop (File.lint).                                 *)
(***************************************************************************)
EXTENDS Integers, Sequences, FiniteSets, TLC

VARIABLES
    comments,                 \* f.AST.Comments, reduced to what handleComment reads
    pc,                       \* position of the pass inside lint
    enabledDisabledRulesMap,  \* rule name -> toggle list ([]enableDisableConfig)
    disabledIntervals,        \* rule name -> interval list (lint's local variable)
    ri,                       \* number of rules whose loop iteration is complete
    applied,                  \* what each rule's Apply returned so far, in rule order
    currentFailures,          \* filtered failures of the current rule not yet sent
    failures,                 \* the output channel's buffer
    received                  \* what the consumer has taken from the channel

vars == <<comments, pc, enabledDisabledRulesMap, disabledIntervals, ri,
          applied, currentFailures, failures, received>>

lintVars == <<ri, applied, currentFailures, failures, received>>

----------------------------------------------------------------------------
(* Bounds of the model *)

MaxComments == 3
MaxLine == 2
MaxFailures == 2
ChanCap == 1

(* math.MaxInt32, the "end of file" line of an unclosed interval *)
MaxInt32 == 2147483647

(* The rules handed to lint, by name, in the caller's order *)
rules == <<"ruleA", "ruleB">>

Modifiers == {"", "line", "next-line"}

(* Rule-name lists a directive comment can carry after the marker: none, or *)
(* a registered rule together with a name that is not registered           *)
NameLists == {<<>>, <<"ruleA", "ruleC">>}

(* A comment group as handleComment sees it: whether the marker regexp      *)
(* matched, parts[1] = "enable", parts[2], the split rule names, and the    *)
(* line of the comment's position.                                          *)
Directives ==
    [matched : {TRUE}, enable : BOOLEAN, modifier : Modifiers, ruleNames : NameLists]

(* A comment the marker regexp does not match *)
PlainComments ==
    [matched : {FALSE}, enable : {FALSE}, modifier : {""}, ruleNames : {<<>>}]

CommentKinds == Directives \cup PlainComments

AtLine(c, line) ==
    [matched |-> c.matched, enable |-> c.enable, modifier |-> c.modifier,
     ruleNames |-> c.ruleNames, line |-> line]

(* Comments come in source order: their lines never decrease *)
InFileOrder(ls) == \A i \in 1..(Len(ls) - 1) : ls[i] <= ls[i + 1]

(* The lines of k comments: any arrangement on the first MaxLine lines, or  *)
(* one comment on each of the lines 1..k                                    *)
CommentLines(k) ==
    {ls \in [1..k -> 1..MaxLine] : InFileOrder(ls)} \cup {[i \in 1..k |-> i]}

----------------------------------------------------------------------------
(* The closures of File.disabledIntervals *)

Range(s) == {s[i] : i \in 1..Len(s)}

handleConfig(m, isEnabled, line, name) ==
    LET ok == name \in DOMAIN m
        existing == IF ok THEN m[name] ELSE <<>>
        m1 == IF ok THEN m ELSE (name :> <<>>) @@ m
    IN  IF \/ (Len(existing) > 1 /\ existing[Len(existing)].enabled = isEnabled)
           \/ (Len(existing) = 0 /\ isEnabled)
        THEN m1
        ELSE [m1 EXCEPT ![name] =
                 Append(existing, [enabled |-> isEnabled, position |-> line])]

(* handleRules with the next-line offset forgotten *)
handleRuleNoOffset(m, modifier, isEnabled, line, name) ==
    IF modifier = "line" \/ modifier = "next-line"
    THEN handleConfig(handleConfig(m, isEnabled, line, name), ~isEnabled, line, name)
    ELSE handleConfig(m, isEnabled, line, name)

(* handleRules with the next-line offset one too large *)
handleRuleOffsetTwo(m, modifier, isEnabled, line, name) ==
    IF modifier = "line"
    THEN handleConfig(handleConfig(m, isEnabled, line, name), ~isEnabled, line, name)
    ELSE IF modifier = "next-line"
    THEN handleConfig(handleConfig(m, isEnabled, line + 2, name),
                      ~isEnabled, line + 2, name)
    ELSE handleConfig(m, isEnabled, line, name)

(* handleRules placing the revert event of next-line on the comment's line *)
handleRuleRevertAtLine(m, modifier, isEnabled, line, name) ==
    IF modifier = "line"
    THEN handleConfig(handleConfig(m, isEnabled, line, name), ~isEnabled, line, name)
    ELSE IF modifier = "next-line"
    THEN handleConfig(handleConfig(m, isEnabled, line + 1, name),
                      ~isEnabled, line, name)
    ELSE handleConfig(m, isEnabled, line, name)

handleRule(m, modifier, isEnabled, line, name) ==
    IF modifier = "line"
    THEN handleConfig(handleConfig(m, isEnabled, line, name), ~isEnabled, line, name)
    ELSE IF modifier = "next-line"
    THEN handleConfig(handleConfig(m, isEnabled, line + 1, name),
                      ~isEnabled, line + 1, name)
    ELSE handleConfig(m, isEnabled, line, name)

RECURSIVE handleRules(_, _, _, _, _)
handleRules(m, modifier, isEnabled, line, ruleNames) ==
    IF ruleNames = <<>>
    THEN m
    ELSE handleRules(handleRule(m, modifier, isEnabled, line, Head(ruleNames)),
                     modifier, isEnabled, line, Tail(ruleNames))

(* handleComment expanding an empty list to the first rule only *)
expandFirstRuleOnly(ruleNames) ==
    IF Len(ruleNames) = 0 THEN <<Head(rules)>> ELSE ruleNames

(* handleComment adding every rule without testing for an empty list *)
expandAlways(ruleNames) == ruleNames \o rules

expandRuleNames(ruleNames) ==
    IF Len(ruleNames) = 0 THEN rules ELSE ruleNames

handleComment(m, c) ==
    IF ~c.matched
    THEN m
    ELSE handleRules(m, c.modifier, c.enable, c.line, expandRuleNames(c.ruleNames))

RECURSIVE ruleIntervals(_, _, _, _)
ruleIntervals(ruleName, disabledArr, i, ruleResult) ==
    IF i >= Len(disabledArr)
    THEN ruleResult
    ELSE IF i % 2 = 0
    THEN ruleIntervals(ruleName, disabledArr, i + 1,
             Append(ruleResult, [RuleName |-> ruleName,
                                 From |-> disabledArr[i + 1].position,
                                 To |-> MaxInt32]))
    ELSE ruleIntervals(ruleName, disabledArr, i + 1,
             [ruleResult EXCEPT ![Len(ruleResult)].To = disabledArr[i + 1].position])

(* getEnabledDisabledIntervals building intervals from complete pairs only *)
getIntervalsOfPairsOnly(m) ==
    [ruleName \in DOMAIN m |->
        ruleIntervals(ruleName,
                      SubSeq(m[ruleName], 1, 2 * (Len(m[ruleName]) \div 2)), 0, <<>>)]

getEnabledDisabledIntervals(m) ==
    [ruleName \in DOMAIN m |-> ruleIntervals(ruleName, m[ruleName], 0, <<>>)]

(* The comment loop of disabledIntervals run to its end on a whole file *)
RECURSIVE scanComments(_, _)
scanComments(m, cs) ==
    IF cs = <<>> THEN m ELSE scanComments(handleComment(m, Head(cs)), Tail(cs))

emptyMap == [name \in {} |-> <<>>]

----------------------------------------------------------------------------
(* File.filterFailures *)

(* The overlap test with the end-line clause forgotten *)
intervalHitsStartOnly(interval, failure) ==
    failure.Start >= interval.From /\ failure.Start <= interval.To

(* The overlap test with the interval's last line left out *)
intervalHitsHalfOpen(interval, failure) ==
    \/ (failure.Start >= interval.From /\ failure.Start < interval.To)
    \/ (failure.End >= interval.From /\ failure.End < interval.To)

intervalHits(interval, failure) ==
    \/ (failure.Start >= interval.From /\ failure.Start <= interval.To)
    \/ (failure.End >= interval.From /\ failure.End <= interval.To)

(* filterFailures with the test of ok inverted *)
includeFailureOkInverted(failure, intervalsMap) ==
    IF failure.RuleName \in DOMAIN intervalsMap
    THEN ~\E k \in 1..Len(intervalsMap[failure.RuleName]) :
             intervalHits(intervalsMap[failure.RuleName][k], failure)
    ELSE FALSE

includeFailure(failure, intervalsMap) ==
    IF failure.RuleName \notin DOMAIN intervalsMap
    THEN TRUE
    ELSE ~\E k \in 1..Len(intervalsMap[failure.RuleName]) :
             intervalHits(intervalsMap[failure.RuleName][k], failure)

filterFailures(fs, intervalsMap) ==
    SelectSeq(fs, LAMBDA failure : includeFailure(failure, intervalsMap))

----------------------------------------------------------------------------
(* lint, up to its call of f.disabledIntervals(rules) *)

StartOfLint ==
    /\ pc = "scan"
    /\ enabledDisabledRulesMap = emptyMap
    /\ disabledIntervals = emptyMap
    /\ ri = 0
    /\ applied = <<>>
    /\ currentFailures = <<>>
    /\ failures = <<>>
    /\ received = <<>>

InitScan ==
    /\ \E k \in 0..MaxComments :
         \E ls \in CommentLines(k) :
             \E ks \in [1..k -> CommentKinds] :
                 comments = [i \in 1..k |-> AtLine(ks[i], ls[i])]
    /\ StartOfLint

(* disabledIntervals := f.disabledIntervals(rules): the comment loop and    *)
(* getEnabledDisabledIntervals, run by the pass with nothing interleaved    *)
DisabledIntervals ==
    /\ pc = "scan"
    /\ enabledDisabledRulesMap' = scanComments(emptyMap, comments)
    /\ disabledIntervals' = getEnabledDisabledIntervals(enabledDisabledRulesMap')
    /\ pc' = "apply"
    /\ UNCHANGED <<comments, lintVars>>

NextScan == DisabledIntervals

SpecScan == InitScan /\ [][NextScan]_vars

----------------------------------------------------------------------------
(* The rest of lint: the loop over the rules and the output channel *)

(* What a rule's Apply can return: failures that carry no rule name or the  *)
(* name "ruleA", with the start and end line of their position              *)
FailureSpans == {<<1, 1>>, <<1, 2>>, <<2, 2>>, <<1, 3>>}

Failures ==
    {[RuleName |-> name, Start |-> span[1], End |-> span[2]] :
        name \in {"", "ruleA"}, span \in FailureSpans}

ApplyResults(n) == UNION {[1..k -> Failures] : k \in 0..n}

Flatten(seqs) ==
    LET F[i \in 0..Len(seqs)] == IF i = 0 THEN <<>> ELSE F[i - 1] \o seqs[i]
    IN  F[Len(seqs)]

(* lines 93-95: a failure without a rule name gets the current rule's *)
stampRuleName(fs, ruleName) ==
    [i \in 1..Len(fs) |->
        IF fs[i].RuleName = "" THEN [fs[i] EXCEPT !.RuleName = ruleName] ELSE fs[i]]

(* The directive that disables every rule on its own line *)
LineDisables ==
    {c \in Directives : ~c.enable /\ c.modifier = "line" /\ c.ruleNames = <<>>}

(* The files of the rule loop: no comment, one comment of any kind, or two  *)
(* disable-line directives                                                  *)
Init ==
    /\ \/ comments = <<>>
       \/ \E c \in CommentKinds : \E line \in 1..MaxLine : comments = <<AtLine(c, line)>>
       \/ \E c1, c2 \in LineDisables : \E l1, l2 \in 1..MaxLine :
             l1 <= l2 /\ comments = <<AtLine(c1, l1), AtLine(c2, l2)>>
    /\ StartOfLint

(* One iteration of the rule loop up to its first send: Apply, the stamping *)
(* of the rule name, filterFailures.  The pass reports at most MaxFailures  *)
(* failures in all.                                                         *)
Apply ==
    /\ pc = "apply"
    /\ ri < Len(rules)
    /\ \E fs \in ApplyResults(MaxFailures - Len(Flatten(applied))) :
          /\ applied' = Append(applied, fs)
          /\ currentFailures' =
                 filterFailures(stampRuleName(fs, rules[ri + 1]), disabledIntervals)
    /\ IF currentFailures' = <<>>
       THEN pc' = "apply" /\ ri' = ri + 1
       ELSE pc' = "send" /\ ri' = ri
    /\ UNCHANGED <<comments, enabledDisabledRulesMap, disabledIntervals,
                   failures, received>>

(* A send loop that ranges over the current failures from the last one *)
SendLastFirst ==
    /\ pc = "send"
    /\ Len(failures) < ChanCap
    /\ failures' = Append(failures, currentFailures[Len(currentFailures)])
    /\ currentFailures' = SubSeq(currentFailures, 1, Len(currentFailures) - 1)
    /\ IF currentFailures' = <<>>
       THEN pc' = "apply" /\ ri' = ri + 1
       ELSE pc' = "send" /\ ri' = ri
    /\ UNCHANGED <<comments, enabledDisabledRulesMap, disabledIntervals,
                   applied, received>>

(* failures <- failure *)
Send ==
    /\ pc = "send"
    /\ Len(failures) < ChanCap
    /\ failures' = Append(failures, Head(currentFailures))
    /\ currentFailures' = Tail(currentFailures)
    /\ IF currentFailures' = <<>>
       THEN pc' = "apply" /\ ri' = ri + 1
       ELSE pc' = "send" /\ ri' = ri
    /\ UNCHANGED <<comments, enabledDisabledRulesMap, disabledIntervals,
                   applied, received>>

(* A lint that recovers from the panic and goes on with the next rule *)
PanicRecovered ==
    /\ pc = "apply"
    /\ ri < Len(rules)
    /\ pc' = "apply"
    /\ ri' = ri + 1
    /\ UNCHANGED <<comments, enabledDisabledRulesMap, disabledIntervals,
                   applied, currentFailures, failures, received>>

(* currentRule.Apply panics: lint has no recover, so the panic leaves lint *)
(* before anything of the rule is stamped, filtered or sent                 *)
Panic ==
    /\ pc = "apply"
    /\ ri < Len(rules)
    /\ pc' = "panicked"
    /\ UNCHANGED <<comments, enabledDisabledRulesMap, disabledIntervals, lintVars>>

(* A consumer that starts to drain the channel only after lint returned *)
ReceiveAfterReturn ==
    /\ pc = "done"
    /\ failures # <<>>
    /\ received' = Append(received, Head(failures))
    /\ failures' = Tail(failures)
    /\ UNCHANGED <<comments, pc, enabledDisabledRulesMap, disabledIntervals,
                   ri, applied, currentFailures>>

(* The consumer takes the next failure from the channel *)
Receive ==
    /\ failures # <<>>
    /\ received' = Append(received, Head(failures))
    /\ failures' = Tail(failures)
    /\ UNCHANGED <<comments, pc, enabledDisabledRulesMap, disabledIntervals,
                   ri, applied, currentFailures>>

(* The rule loop is over: lint returns *)
Return ==
    /\ pc = "apply"
    /\ ri = Len(rules)
    /\ pc' = "done"
    /\ UNCHANGED <<comments, enabledDisabledRulesMap, disabledIntervals, lintVars>>

Next == DisabledIntervals \/ Apply \/ Panic \/ Send \/ Receive \/ Return

Spec == Init /\ [][Next]_vars

(* The pass whose rules all return and whose consumer keeps draining: the   *)
(* goroutine of lint keeps taking its next step and the consumer keeps      *)
(* receiving while the channel holds a failure                              *)
NextLive == DisabledIntervals \/ Apply \/ Send \/ Receive \/ Return

(* The files of the progress property: no comment or one comment of any kind *)
InitLive ==
    /\ \/ comments = <<>>
       \/ \E c \in CommentKinds : \E line \in 1..MaxLine : comments = <<AtLine(c, line)>>
    /\ StartOfLint

SpecLive ==
    /\ InitLive
    /\ [][NextLive]_vars
    /\ WF_vars(DisabledIntervals \/ Apply \/ Send \/ Return)
    /\ WF_vars(Receive)

----------------------------------------------------------------------------
(* Two passes, one per file, that send to the same channel.  Here each      *)
(* variable of a pass (comments, pc, the two maps, ri, applied,             *)
(* currentFailures) holds one value per pass; failures and received are the *)
(* channel both passes were given and its consumer.                         *)

Passes == {"fileA", "fileB"}

OtherPass(p) == CHOOSE q \in Passes : q # p

(* The files of the two passes: no comment, a disable-line or a disable of  *)
(* every rule on line 1                                                     *)
PassFiles ==
    {<<>>} \cup
    {<<AtLine(c, 1)>> : c \in {d \in Directives :
                                 ~d.enable /\ d.modifier \in {"", "line"} /\ d.ruleNames = <<>>}}

(* What a rule's Apply returns in a pass: nothing, or one failure without   *)
(* rule name on line 1 or on line 2                                         *)
PassResults ==
    {<<>>} \cup {<<[RuleName |-> "", Start |-> line, End |-> line]>> : line \in {1, 2}}

InitTwo ==
    /\ comments \in [Passes -> PassFiles]
    /\ pc = [p \in Passes |-> "scan"]
    /\ enabledDisabledRulesMap = [p \in Passes |-> emptyMap]
    /\ disabledIntervals = [p \in Passes |-> emptyMap]
    /\ ri = [p \in Passes |-> 0]
    /\ applied = [p \in Passes |-> <<>>]
    /\ currentFailures = [p \in Passes |-> <<>>]
    /\ failures = <<>>
    /\ received = <<>>

(* A scan that adds to a toggle map the passes have in common *)
PassScanOnCommonMap(p) ==
    /\ pc[p] = "scan"
    /\ enabledDisabledRulesMap' =
           [enabledDisabledRulesMap EXCEPT
               ![p] = scanComments(enabledDisabledRulesMap[OtherPass(p)], comments[p])]
    /\ disabledIntervals' =
           [disabledIntervals EXCEPT
               ![p] = getEnabledDisabledIntervals(enabledDisabledRulesMap'[p])]
    /\ pc' = [pc EXCEPT ![p] = "apply"]
    /\ UNCHANGED <<comments, lintVars>>

(* f.disabledIntervals(rules) of pass p *)
PassDisabledIntervals(p) ==
    /\ pc[p] = "scan"
    /\ enabledDisabledRulesMap' =
           [enabledDisabledRulesMap EXCEPT ![p] = scanComments(emptyMap, comments[p])]
    /\ disabledIntervals' =
           [disabledIntervals EXCEPT
               ![p] = getEnabledDisabledIntervals(enabledDisabledRulesMap'[p])]
    /\ pc' = [pc EXCEPT ![p] = "apply"]
    /\ UNCHANGED <<comments, lintVars>>

(* One iteration of pass p's rule loop up to its first send *)
PassApply(p) ==
    /\ pc[p] = "apply"
    /\ ri[p] < Len(rules)
    /\ \E fs \in PassResults :
          /\ applied' = [applied EXCEPT ![p] = Append(@, fs)]
          /\ currentFailures' =
                 [currentFailures EXCEPT
                     ![p] = filterFailures(stampRuleName(fs, rules[ri[p] + 1]),
                                           disabledIntervals[p])]
    /\ IF currentFailures'[p] = <<>>
       THEN pc' = pc /\ ri' = [ri EXCEPT ![p] = @ + 1]
       ELSE pc' = [pc EXCEPT ![p] = "send"] /\ ri' = ri
    /\ UNCHANGED <<comments, enabledDisabledRulesMap, disabledIntervals,
                   failures, received>>

(* failures <- failure in pass p *)
PassSend(p) ==
    /\ pc[p] = "send"
    /\ Len(failures) < ChanCap
    /\ failures' = Append(failures, Head(currentFailures[p]))
    /\ currentFailures' = [currentFailures EXCEPT ![p] = Tail(@)]
    /\ IF currentFailures'[p] = <<>>
       THEN pc' = [pc EXCEPT ![p] = "apply"] /\ ri' = [ri EXCEPT ![p] = @ + 1]
       ELSE pc' = pc /\ ri' = ri
    /\ UNCHANGED <<comments, enabledDisabledRulesMap, disabledIntervals,
                   applied, received>>

(* Pass p's rule loop is over: its lint returns *)
PassReturn(p) ==
    /\ pc[p] = "apply"
    /\ ri[p] = Len(rules)
    /\ pc' = [pc EXCEPT ![p] = "done"]
    /\ UNCHANGED <<comments, enabledDisabledRulesMap, disabledIntervals, lintVars>>

NextTwo ==
    \/ \E p \in Passes : PassDisabledIntervals(p)
    \/ \E p \in Passes : PassApply(p)
    \/ \E p \in Passes : PassSend(p)
    \/ \E p \in Passes : PassReturn(p)
    \/ Receive

SpecTwo == InitTwo /\ [][NextTwo]_vars

----------------------------------------------------------------------------
(* Vocabulary of the properties *)

Scanned == pc = "apply" /\ ri = 0 /\ applied = <<>>

RuleSet == Range(rules)

Targets(c, R) ==
    /\ c.matched
    /\ \/ (c.ruleNames = <<>> /\ R \in RuleSet)
       \/ R \in Range(c.ruleNames)

IsPlain(c, en) == c.matched /\ c.modifier = "" /\ c.enable = en
IsScoped(c, en, modifier) == c.matched /\ c.modifier = modifier /\ c.enable = en

RemoveAt(s, i) == SubSeq(s, 1, i - 1) \o SubSeq(s, i + 1, Len(s))

(* The interval map the scan builds for a whole comment list *)
IntervalsOfFile(cs) == getEnabledDisabledIntervals(scanComments(emptyMap, cs))

IntervalsFor(im, R) == IF R \in DOMAIN im THEN im[R] ELSE <<>>

TogglesFor(m, R) == IF R \in DOMAIN m THEN m[R] ELSE <<>>

(* Failures the rules may report: a rule name and a start and end line *)
ProbeLines == 1..(MaxComments + 2)

Probes ==
    {f \in [RuleName : RuleSet, Start : ProbeLines, End : ProbeLines] :
        f.Start <= f.End}

Dropped(f, im) == filterFailures(<<f>>, im) = <<>>

StrictlyIncreasing(cs) == \A i \in 1..(Len(cs) - 1) : cs[i].line < cs[i + 1].line

----------------------------------------------------------------------------
(* C1: if rule R is targeted by a plain disable at line L and no later     *)
(* plain enable targets R, every failure of R starting at a line >= L is   *)
(* dropped by the filter.  Stated for the files with at most one comment   *)
(* per line, where it already fails.                                       *)
C1_DisableToEndOfFile ==
    (Scanned /\ StrictlyIncreasing(comments)) =>
        \A i \in 1..Len(comments) : \A R \in RuleSet :
            ( /\ IsPlain(comments[i], FALSE)
              /\ Targets(comments[i], R)
              /\ ~\E j \in (i + 1)..Len(comments) :
                     IsPlain(comments[j], TRUE) /\ Targets(comments[j], R) )
            => \A f \in Probes :
                   (f.RuleName = R /\ f.Start >= comments[i].line)
                   => Dropped(f, disabledIntervals)

(* C2: a plain disable for R at L2 that follows a plain disable for R at   *)
(* L1 < L2 with no enable for R in between leaves R's interval list as it   *)
(* is without the second disable.                                          *)
C2_DisableIdempotent ==
    (Scanned /\ Len(comments) >= 2) =>
        LET n == Len(comments) IN
        \A R \in RuleSet :
            ( /\ IsPlain(comments[n], FALSE)
              /\ Targets(comments[n], R)
              /\ \E i \in 1..(n - 1) :
                    /\ IsPlain(comments[i], FALSE)
                    /\ Targets(comments[i], R)
                    /\ comments[i].line < comments[n].line
                    /\ ~\E j \in (i + 1)..(n - 1) :
                           comments[j].enable /\ Targets(comments[j], R) )
            => IntervalsFor(disabledIntervals, R)
               = IntervalsFor(IntervalsOfFile(SubSeq(comments, 1, n - 1)), R)

(* C3: a disable-line directive for R at line L makes every failure of R   *)
(* that starts or ends on L dropped, and changes the fate of no failure of  *)
(* R that neither starts nor ends on L.  Stated for the files with at most  *)
(* one comment per line, where it already fails.                            *)
C3_DisableLineOnlyThatLine ==
    (Scanned /\ StrictlyIncreasing(comments)) =>
        \A i \in 1..Len(comments) : \A R \in RuleSet :
            (IsScoped(comments[i], FALSE, "line") /\ Targets(comments[i], R))
            => \A f \in Probes :
                   f.RuleName = R =>
                       IF f.Start = comments[i].line \/ f.End = comments[i].line
                       THEN Dropped(f, disabledIntervals)
                       ELSE Dropped(f, disabledIntervals)
                            <=> Dropped(f, IntervalsOfFile(RemoveAt(comments, i)))

OnlyDirective(i) ==
    /\ comments[i].matched
    /\ \A j \in 1..Len(comments) : j # i => ~comments[j].matched

AllNames(m1, m2) == DOMAIN m1 \cup DOMAIN m2 \cup RuleSet

(* C4: when the only directive is disable-next-line at L with no rule name, *)
(* every registered rule has exactly the interval [L+1, L+1], and a failure *)
(* of a registered rule is dropped iff it starts or ends on line L+1.       *)
C4_DisableNextLineAllRules ==
    Scanned =>
        \A i \in 1..Len(comments) :
            ( /\ OnlyDirective(i)
              /\ IsScoped(comments[i], FALSE, "next-line")
              /\ comments[i].ruleNames = <<>> )
            => LET L == comments[i].line IN
               \A R \in RuleSet :
                   /\ R \in DOMAIN disabledIntervals
                   /\ disabledIntervals[R]
                      = <<[RuleName |-> R, From |-> L + 1, To |-> L + 1]>>
                   /\ \A f \in Probes :
                          f.RuleName = R =>
                              (Dropped(f, disabledIntervals)
                               <=> (f.Start = L + 1 \/ f.End = L + 1))

C4_Witness ==
    /\ Scanned
    /\ Len(comments) = 2
    /\ OnlyDirective(2)
    /\ IsScoped(comments[2], FALSE, "next-line")
    /\ comments[2].ruleNames = <<>>
    /\ comments[2].line = 2
    /\ disabledIntervals["ruleB"] = <<[RuleName |-> "ruleB", From |-> 3, To |-> 3]>>
    /\ Dropped([RuleName |-> "ruleA", Start |-> 2, End |-> 3], disabledIntervals)
    /\ ~Dropped([RuleName |-> "ruleA", Start |-> 2, End |-> 2], disabledIntervals)

(* C7: processing a directive with no rule name has the effect of          *)
(* processing the same directive naming every rule handed to the pass, and  *)
(* it neither creates nor changes the toggle list of a name that is not one *)
(* of those rules.                                                          *)
C7_EmptyListMeansEveryRule ==
    (Scanned /\ Len(comments) >= 1) =>
        LET n == Len(comments)
            c == comments[n]
            before == scanComments(emptyMap, SubSeq(comments, 1, n - 1))
        IN  (c.matched /\ c.ruleNames = <<>>)
            => /\ enabledDisabledRulesMap
                  = scanComments(before, <<[c EXCEPT !.ruleNames = rules]>>)
               /\ \A name \in AllNames(enabledDisabledRulesMap, before) \ RuleSet :
                      /\ name \in DOMAIN enabledDisabledRulesMap
                      /\ name \in DOMAIN before
                      /\ enabledDisabledRulesMap[name] = before[name]

C7_Witness ==
    /\ Scanned
    /\ Len(comments) = 2
    /\ comments[2].matched
    /\ comments[2].ruleNames = <<>>
    /\ "ruleC" \in DOMAIN enabledDisabledRulesMap
    /\ Len(enabledDisabledRulesMap["ruleC"]) = 1
    /\ Len(enabledDisabledRulesMap["ruleA"]) = 2
    /\ Len(enabledDisabledRulesMap["ruleB"]) = 1

(* C8: processing a directive that names a non-empty set S of rules leaves *)
(* the toggle list and the interval list of every rule outside S as they    *)
(* were; a lone plain disable naming S at line L drops the failures of its  *)
(* rules that start at L or later, keeps those that end before L, and drops *)
(* no failure of a rule outside S.                                          *)
C8_PerRuleIsolation ==
    (Scanned /\ Len(comments) >= 1) =>
        LET n == Len(comments)
            c == comments[n]
            S == Range(c.ruleNames)
            before == scanComments(emptyMap, SubSeq(comments, 1, n - 1))
        IN  (c.matched /\ c.ruleNames # <<>>)
            => /\ \A name \in AllNames(enabledDisabledRulesMap, before) \ S :
                      /\ name \in DOMAIN enabledDisabledRulesMap
                         <=> name \in DOMAIN before
                      /\ TogglesFor(enabledDisabledRulesMap, name)
                         = TogglesFor(before, name)
                      /\ IntervalsFor(disabledIntervals, name)
                         = IntervalsFor(getEnabledDisabledIntervals(before), name)
               /\ (OnlyDirective(n) /\ IsPlain(c, FALSE))
                  => \A f \in Probes :
                         /\ (f.RuleName \in S /\ f.Start >= c.line)
                            => Dropped(f, disabledIntervals)
                         /\ (f.RuleName \in S /\ f.End < c.line)
                            => ~Dropped(f, disabledIntervals)
                         /\ f.RuleName \notin S => ~Dropped(f, disabledIntervals)

C8_Witness ==
    /\ Scanned
    /\ Len(comments) = 2
    /\ comments[2].matched
    /\ comments[2].ruleNames = <<"ruleA", "ruleC">>
    /\ Len(enabledDisabledRulesMap["ruleA"]) = 2
    /\ "ruleB" \in DOMAIN enabledDisabledRulesMap
    /\ Len(enabledDisabledRulesMap["ruleB"]) = 1
    /\ Dropped([RuleName |-> "ruleB", Start |-> 3, End |-> 3], disabledIntervals)

(* C9 as stated: for comment lines that never decrease, consecutive         *)
(* intervals of a rule satisfy I_k.to < I_{k+1}.from.                       *)
C9_StrictlySeparated ==
    Scanned =>
        \A R \in DOMAIN disabledIntervals :
            \A k \in 1..(Len(disabledIntervals[R]) - 1) :
                disabledIntervals[R][k].To < disabledIntervals[R][k + 1].From

(* C9 as amended: for strictly increasing comment lines, consecutive        *)
(* intervals of a rule satisfy I_k.to <= I_{k+1}.from.                      *)
C9_AscendingSharedBoundary ==
    (Scanned /\ StrictlyIncreasing(comments)) =>
        \A R \in DOMAIN disabledIntervals :
            \A k \in 1..(Len(disabledIntervals[R]) - 1) :
                disabledIntervals[R][k].To <= disabledIntervals[R][k + 1].From

C9_Witness ==
    /\ Scanned
    /\ StrictlyIncreasing(comments)
    /\ Len(comments) = 3
    /\ "ruleA" \in DOMAIN disabledIntervals
    /\ Len(disabledIntervals["ruleA"]) = 2
    /\ disabledIntervals["ruleA"][1].From = 1
    /\ disabledIntervals["ruleA"][1].To = 3
    /\ disabledIntervals["ruleA"][2].From = 3

(* C10: a directive with the line or next-line modifier appends exactly two *)
(* events to each targeted rule's toggle list, both at the comment's line   *)
(* (line) or the line after it (next-line): the requested state, then the   *)
(* reverted state.                                                          *)
C10_ScopedAppendsTwoEvents ==
    (Scanned /\ Len(comments) >= 1) =>
        LET n == Len(comments)
            c == comments[n]
            before == scanComments(emptyMap, SubSeq(comments, 1, n - 1))
            at == IF c.modifier = "next-line" THEN c.line + 1 ELSE c.line
        IN  (c.matched /\ c.modifier \in {"line", "next-line"})
            => \A R \in Range(expandRuleNames(c.ruleNames)) :
                   TogglesFor(enabledDisabledRulesMap, R)
                   = TogglesFor(before, R)
                     \o <<[enabled |-> c.enable, position |-> at],
                          [enabled |-> ~c.enable, position |-> at]>>

----------------------------------------------------------------------------
(* Properties of the rule loop *)

(* Everything lint has sent on the channel so far, in order *)
sent == received \o failures

NoDirectives == \A i \in 1..Len(comments) : ~comments[i].matched

Named(f, ruleName) ==
    IF f.RuleName = "" THEN [f EXCEPT !.RuleName = ruleName] ELSE f

(* The results of the rules applied so far, each failure under its name *)
NamedResults == [i \in 1..Len(applied) |-> [j \in 1..Len(applied[i]) |->
                    Named(applied[i][j], rules[i])]]

(* C5: in a file without directive, what lint sends is the concatenation,   *)
(* in the caller's rule order, of each rule's Apply result in its own       *)
(* order, a failure without rule name carrying the rule's: nothing is       *)
(* dropped, duplicated or reordered.                                        *)
C5_NoDirectiveOutputIsConcatenation ==
    NoDirectives =>
        /\ sent \o currentFailures = Flatten(NamedResults)
        /\ pc = "done" => (Len(applied) = Len(rules) /\ sent = Flatten(NamedResults))

C5_Witness ==
    /\ pc = "done"
    /\ NoDirectives
    /\ comments # <<>>
    /\ applied = << <<[RuleName |-> "ruleA", Start |-> 2, End |-> 2]>>,
                    <<[RuleName |-> "", Start |-> 1, End |-> 3]>> >>
    /\ received = <<[RuleName |-> "ruleA", Start |-> 2, End |-> 2],
                    [RuleName |-> "ruleB", Start |-> 1, End |-> 3]>>

(* The overlap test as the specification words it *)
Within(line, interval) == interval.From <= line /\ line <= interval.To

SpecKeeps(f) ==
    \/ f.RuleName \notin DOMAIN disabledIntervals
    \/ \A k \in 1..Len(disabledIntervals[f.RuleName]) :
           ~(\/ Within(f.Start, disabledIntervals[f.RuleName][k])
             \/ Within(f.End, disabledIntervals[f.RuleName][k]))

(* C6: filterFailures keeps a failure iff its rule name has no interval     *)
(* list or no interval of it contains the failure's start line or its end   *)
(* line (so a failure that strictly contains every interval of its rule is  *)
(* kept, and one that starts before an interval and ends inside it is       *)
(* dropped), and the kept failures stay in their order.                     *)
C6_FilterKeepsExactly ==
    pc \in {"apply", "send", "done"} =>
        LET out == sent \o currentFailures IN
        /\ out = Flatten([i \in 1..Len(applied) |->
                             SelectSeq(NamedResults[i], SpecKeeps)])
        /\ \A i \in 1..Len(applied) : \A j \in 1..Len(applied[i]) :
               LET f == NamedResults[i][j]
                   iv == IntervalsFor(disabledIntervals, f.RuleName)
               IN  /\ (\A k \in 1..Len(iv) : f.Start < iv[k].From /\ f.End > iv[k].To)
                      => f \in Range(out)
                   /\ (\E k \in 1..Len(iv) :
                           f.Start < iv[k].From /\ Within(f.End, iv[k]))
                      => f \notin Range(out)

C6_Witness ==
    /\ pc = "done"
    /\ "ruleA" \in DOMAIN disabledIntervals
    /\ disabledIntervals["ruleA"] = <<[RuleName |-> "ruleA", From |-> 2, To |-> 2]>>
    /\ applied = << <<[RuleName |-> "", Start |-> 1, End |-> 2],
                      [RuleName |-> "", Start |-> 1, End |-> 3]>>, <<>> >>
    /\ received = <<[RuleName |-> "ruleA", Start |-> 1, End |-> 3]>>

----------------------------------------------------------------------------
(* Properties of the toggle lists and of the pairing *)

(* C11: handleConfig appends an event only when the requested state differs *)
(* from the rule's effective state, so every toggle list starts with a      *)
(* disable event and consecutive events have opposite enabled flags.        *)
C11_TogglesAlternate ==
    Scanned =>
        \A name \in DOMAIN enabledDisabledRulesMap :
            LET toggles == enabledDisabledRulesMap[name] IN
            /\ toggles # <<>> => ~toggles[1].enabled
            /\ \A k \in 1..(Len(toggles) - 1) :
                   toggles[k].enabled # toggles[k + 1].enabled

(* C12: a toggle list e_0..e_{n-1} gives ceil(n/2) intervals; interval k    *)
(* runs from e_{2k}.line to e_{2k+1}.line, or to MaxInt32 when e_{2k+1}     *)
(* does not exist; only names with a toggle list are in the interval map.   *)
C12_IntervalPairing ==
    Scanned =>
        /\ DOMAIN disabledIntervals \subseteq DOMAIN enabledDisabledRulesMap
        /\ \A name \in DOMAIN enabledDisabledRulesMap :
               LET e == enabledDisabledRulesMap[name]
                   n == Len(e)
                   iv == IntervalsFor(disabledIntervals, name)
               IN  /\ name \in DOMAIN disabledIntervals
                   /\ Len(iv) = (n + 1) \div 2
                   /\ \A k \in 0..(Len(iv) - 1) :
                          /\ iv[k + 1].RuleName = name
                          /\ iv[k + 1].From = e[2 * k + 1].position
                          /\ iv[k + 1].To = IF 2 * k + 2 <= n
                                            THEN e[2 * k + 2].position
                                            ELSE MaxInt32

C12_Witness ==
    /\ Scanned
    /\ "ruleA" \in DOMAIN enabledDisabledRulesMap
    /\ Len(enabledDisabledRulesMap["ruleA"]) = 3
    /\ Len(disabledIntervals["ruleA"]) = 2
    /\ disabledIntervals["ruleA"][2].To = MaxInt32
    /\ "ruleB" \notin DOMAIN disabledIntervals

(* The directives of the file that target R *)
TargetingR(R) == {i \in 1..Len(comments) : Targets(comments[i], R)}

(* C13: when the only directives targeting R are a plain disable at L1 and  *)
(* a later plain enable at L2 > L1, R's interval list is exactly [L1, L2]:  *)
(* failures of R that start or end in [L1, L2] are dropped, those wholly    *)
(* before L1 or wholly after L2 are kept.                                   *)
C13_DisableEnablePair ==
    Scanned =>
        \A R \in RuleSet : \A i, j \in 1..Len(comments) :
            ( /\ i < j
              /\ TargetingR(R) = {i, j}
              /\ IsPlain(comments[i], FALSE)
              /\ IsPlain(comments[j], TRUE)
              /\ comments[i].line < comments[j].line )
            => LET L1 == comments[i].line
                   L2 == comments[j].line
               IN  /\ IntervalsFor(disabledIntervals, R)
                      = <<[RuleName |-> R, From |-> L1, To |-> L2]>>
                   /\ \A f \in Probes :
                          f.RuleName = R =>
                              /\ ((L1 <= f.Start /\ f.Start <= L2)
                                  \/ (L1 <= f.End /\ f.End <= L2))
                                 => Dropped(f, disabledIntervals)
                              /\ (f.End < L1 \/ f.Start > L2)
                                 => ~Dropped(f, disabledIntervals)

C13_Witness ==
    /\ Scanned
    /\ Len(comments) = 3
    /\ TargetingR("ruleB") = {1, 3}
    /\ IsPlain(comments[1], FALSE) /\ comments[1].line = 1
    /\ comments[2].matched
    /\ IsPlain(comments[3], TRUE) /\ comments[3].line = 3
    /\ disabledIntervals["ruleB"] = <<[RuleName |-> "ruleB", From |-> 1, To |-> 3]>>
    /\ Dropped([RuleName |-> "ruleB", Start |-> 3, End |-> 4], disabledIntervals)
    /\ ~Dropped([RuleName |-> "ruleB", Start |-> 4, End |-> 4], disabledIntervals)

(* C18: an enable, enable-line or enable-next-line directive for R appended *)
(* to a directive sequence makes no failure of R dropped that the sequence  *)
(* without it keeps.                                                        *)
C18_EnableAddsNoSuppression ==
    (Scanned /\ Len(comments) >= 1) =>
        LET n == Len(comments)
            c == comments[n]
            before == IntervalsOfFile(SubSeq(comments, 1, n - 1))
        IN  (c.matched /\ c.enable)
            => \A f \in Probes :
                   Targets(c, f.RuleName)
                   => (Dropped(f, disabledIntervals) => Dropped(f, before))

(* C19: when the comment lines strictly increase, the event lines of every  *)
(* toggle list never decrease and every interval has from <= to.            *)
C19_EventLinesAscend ==
    (Scanned /\ StrictlyIncreasing(comments)) =>
        /\ \A name \in DOMAIN enabledDisabledRulesMap :
               \A k \in 1..(Len(enabledDisabledRulesMap[name]) - 1) :
                   enabledDisabledRulesMap[name][k].position
                   <= enabledDisabledRulesMap[name][k + 1].position
        /\ \A name \in DOMAIN disabledIntervals :
               \A k \in 1..Len(disabledIntervals[name]) :
                   disabledIntervals[name][k].From <= disabledIntervals[name][k].To

C19_Witness ==
    /\ Scanned
    /\ StrictlyIncreasing(comments)
    /\ Len(comments) = 3
    /\ IsScoped(comments[1], FALSE, "next-line")
    /\ comments[2].matched
    /\ "ruleA" \in DOMAIN enabledDisabledRulesMap
    /\ Len(enabledDisabledRulesMap["ruleA"]) = 4
    /\ enabledDisabledRulesMap["ruleA"][2].position = 2
    /\ enabledDisabledRulesMap["ruleA"][3].position = 2

----------------------------------------------------------------------------
(* Properties of the rule loop *)

(* What the filter leaves of the i-th applied rule's result, by the         *)
(* specification's overlap test                                             *)
Survivors(i) == SelectSeq(NamedResults[i], SpecKeeps)

SurvivorsUpTo(n) == Flatten([i \in 1..n |-> Survivors(i)])

(* C14: the interval map is built once, before any rule is applied; the     *)
(* rules are applied in the caller's order and every surviving failure of   *)
(* a rule is sent before the next rule is applied, in the order the rule    *)
(* returned them.                                                           *)
C14_RuleByRuleEmission ==
    /\ pc = "scan" => (applied = <<>> /\ currentFailures = <<>> /\ sent = <<>>)
    /\ pc # "scan" => disabledIntervals = IntervalsOfFile(comments)
    /\ pc = "apply" =>
           /\ Len(applied) = ri
           /\ currentFailures = <<>>
           /\ sent = SurvivorsUpTo(ri)
    /\ pc = "send" =>
           /\ Len(applied) = ri + 1
           /\ currentFailures # <<>>
           /\ sent \o currentFailures = SurvivorsUpTo(ri + 1)

C14_Witness ==
    /\ pc = "apply"
    /\ ri = 1
    /\ \E i \in 1..Len(comments) : comments[i].matched
    /\ Len(applied[1]) = 2
    /\ applied[1][1].RuleName = ""
    /\ applied[1][1] # applied[1][2]
    /\ sent = NamedResults[1]

(* C15: when Apply of the k-th rule panics, the panic leaves lint: no later *)
(* rule is applied, no failure of the k-th or of a later rule is sent, and  *)
(* lint returns normally only after every rule's Apply has returned.        *)
C15_PanicLeavesLint ==
    /\ pc = "panicked" =>
           /\ ~ENABLED Apply
           /\ ~ENABLED Send
           /\ ~ENABLED Return
           /\ ri < Len(rules)
           /\ Len(applied) = ri
           /\ currentFailures = <<>>
           /\ sent = SurvivorsUpTo(ri)
    /\ pc = "done" => Len(applied) = Len(rules)

C15_Witness ==
    /\ pc = "panicked"
    /\ ri = 1
    /\ Len(applied[1]) = 2
    /\ Len(received) = 1
    /\ received = <<NamedResults[1][2]>>
    /\ failures = <<>>

(* C17: when every rule's Apply returns and the consumer keeps draining the *)
(* channel, lint eventually returns and has then sent every surviving       *)
(* failure exactly once; lint has no cancellation: while Apply has not      *)
(* returned, and while a send waits for a consumer that does not receive,   *)
(* the pass stays where it is.                                              *)
C17_PassCompletes ==
    /\ <>(pc = "done")
    /\ [](pc = "done" =>
             /\ Len(applied) = Len(rules)
             /\ currentFailures = <<>>
             /\ sent = SurvivorsUpTo(Len(rules)))
    /\ [][(pc = "apply" /\ ri < Len(rules) /\ applied' = applied)
             => (pc' = pc /\ ri' = ri)]_vars
    /\ [][(pc = "send" /\ Len(failures) >= ChanCap /\ received' = received)
             => (pc' = pc /\ ri' = ri /\ currentFailures' = currentFailures)]_vars

C17_Witness ==
    /\ pc = "done"
    /\ failures = <<>>
    /\ Len(applied[1]) = 1
    /\ Len(applied[2]) = 1
    /\ Len(received) = 2
    /\ received[1].RuleName = "ruleA"
    /\ received[2].RuleName = "ruleB"
    /\ \E i \in 1..Len(comments) : comments[i].matched

----------------------------------------------------------------------------
(* Properties of two passes on one channel *)

(* What pass p sends when it runs alone on its file and its rules return    *)
(* what they returned so far                                                *)
EmitsAlone(p) ==
    Flatten([i \in 1..Len(applied[p]) |->
                filterFailures(stampRuleName(applied[p][i], rules[i]),
                               IntervalsOfFile(comments[p]))])

(* What pass p has sent so far: all of the above but what it still holds *)
Emitted(p) == SubSeq(EmitsAlone(p), 1, Len(EmitsAlone(p)) - Len(currentFailures[p]))

(* s is an interleaving of a and b *)
RECURSIVE IsInterleaving(_, _, _)
IsInterleaving(s, a, b) ==
    IF s = <<>>
    THEN a = <<>> /\ b = <<>>
    ELSE \/ (a # <<>> /\ Head(a) = Head(s) /\ IsInterleaving(Tail(s), Tail(a), b))
         \/ (b # <<>> /\ Head(b) = Head(s) /\ IsInterleaving(Tail(s), a, Tail(b)))

(* C16: two passes on different files that send to the same channel share   *)
(* nothing but the channel: what the consumer is given is an interleaving   *)
(* of the two passes' emission sequences, each the sequence the pass emits  *)
(* when it runs alone, and each pass's toggle and interval map is the one   *)
(* of its own file.                                                         *)
C16_PassesShareOnlyChannel ==
    /\ \A p \in Passes :
           /\ pc[p] # "scan" =>
                  /\ enabledDisabledRulesMap[p] = scanComments(emptyMap, comments[p])
                  /\ disabledIntervals[p] = IntervalsOfFile(comments[p])
           /\ Len(currentFailures[p]) <= Len(EmitsAlone(p))
           /\ EmitsAlone(p) = Emitted(p) \o currentFailures[p]
           /\ pc[p] = "done" => (Len(applied[p]) = Len(rules) /\ Emitted(p) = EmitsAlone(p))
    /\ IsInterleaving(sent, Emitted("fileA"), Emitted("fileB"))

C16_Witness ==
    /\ \A p \in Passes : pc[p] = "done"
    /\ comments["fileA"] = <<>>
    /\ comments["fileB"] # <<>>
    /\ disabledIntervals["fileB"] # disabledIntervals["fileA"]
    /\ Len(applied["fileB"][1]) = 1
    /\ Len(EmitsAlone("fileA")) = 2
    /\ Len(EmitsAlone("fileB")) = 1
    /\ received = <<EmitsAlone("fileA")[1], EmitsAlone("fileB")[1], EmitsAlone("fileA")[2]>>
    /\ EmitsAlone("fileB")[1] \notin Range(EmitsAlone("fileA"))

====
